---------------------------- MODULE Spec2Model ----------------------------
(***************************************************************************)
(* A model of handler.py of PDF-Extract-Kit: the FastAPI endpoint          *)
(* process_pdf, the RunPod function handler, the lazily initialised        *)
(* process-wide pipeline (task_instances, pdf_extract_task) and the        *)
(* temporary directory each request works in.                              *)
(*                                                                         *)
(* Text is a sequence of one-character strings, bytes are naturals below   *)
(* 256, a resolved path is a sequence of path components.                  *)
(***************************************************************************)
EXTENDS Integers, Sequences, FiniteSets, TLC

(***************************************************************************)
(* Bounds                                                                  *)
(***************************************************************************)
\* number of request slots that may be in flight together (SpecConc)
NReq == 2

(***************************************************************************)
(* Text literals of handler.py                                             *)
(***************************************************************************)
DotPdf == <<".", "p", "d", "f">>
DotPng == <<".", "p", "n", "g">>
DotMd == <<".", "m", "d">>
StrPdf == <<"p", "d", "f">>
StrImage == <<"i", "m", "a", "g", "e">>
Downloaded == <<"d", "o", "w", "n", "l", "o", "a", "d", "e", "d">>
InputPdf == <<"i", "n", "p", "u", "t", ".", "p", "d", "f">>

UpperCase == <<"A", "B", "C", "D", "E", "F", "G", "H", "I", "J", "K", "L", "M",
               "N", "O", "P", "Q", "R", "S", "T", "U", "V", "W", "X", "Y", "Z">>
LowerCase == <<"a", "b", "c", "d", "e", "f", "g", "h", "i", "j", "k", "l", "m",
               "n", "o", "p", "q", "r", "s", "t", "u", "v", "w", "x", "y", "z">>

(***************************************************************************)
(* str methods and slices                                                  *)
(***************************************************************************)
\* str.lower() on one character
LowerChar(c) ==
    IF \E i \in 1..Len(UpperCase) : UpperCase[i] = c
    THEN LowerCase[CHOOSE i \in 1..Len(UpperCase) : UpperCase[i] = c]
    ELSE c

\* str.lower()
Lower(s) == [i \in 1..Len(s) |-> LowerChar(s[i])]

\* sub in s
Contains(s, sub) ==
    \E i \in 0..(Len(s) - Len(sub)) : SubSeq(s, i + 1, i + Len(sub)) = sub

\* s.endswith(suffix)
EndsWith(s, suffix) ==
    /\ Len(s) >= Len(suffix)
    /\ SubSeq(s, Len(s) - Len(suffix) + 1, Len(s)) = suffix

\* s.startswith(prefix)
StartsWith(s, prefix) ==
    /\ Len(s) >= Len(prefix)
    /\ SubSeq(s, 1, Len(prefix)) = prefix

\* s.rfind(c) + 1: the last position of c in s, 0 when there is none
RFind(s, c) ==
    IF \E i \in 1..Len(s) : s[i] = c
    THEN CHOOSE i \in 1..Len(s) : s[i] = c /\ \A j \in (i + 1)..Len(s) : s[j] # c
    ELSE 0

\* s[:-4]
DropLast4(s) == IF Len(s) <= 4 THEN <<>> ELSE SubSeq(s, 1, Len(s) - 4)

(***************************************************************************)
(* os.path                                                                 *)
(***************************************************************************)
\* os.path.splitext(p) as (root, ext): the extension starts at the last dot
\* of the last component, unless that component has only leading dots
\* before it
SplitExt(p) ==
    LET sepIndex == RFind(p, "/")
        dotIndex == RFind(p, ".")
    IN  IF /\ dotIndex > sepIndex
           /\ \E k \in (sepIndex + 1)..(dotIndex - 1) : p[k] # "."
        THEN <<SubSeq(p, 1, dotIndex - 1), SubSeq(p, dotIndex, Len(p))>>
        ELSE <<p, <<>>>>

\* os.path.basename(p)
BaseName(p) == SubSeq(p, RFind(p, "/") + 1, Len(p))

\* os.path.join(a, b)
PathJoin(a, b) ==
    IF StartsWith(b, <<"/">>) THEN b
    ELSE IF a = <<>> \/ EndsWith(a, <<"/">>) THEN a \o b
    ELSE a \o <<"/">> \o b

(***************************************************************************)
(* base64                                                                  *)
(***************************************************************************)
B64Alphabet ==
    <<"A", "B", "C", "D", "E", "F", "G", "H", "I", "J", "K", "L", "M", "N", "O",
      "P", "Q", "R", "S", "T", "U", "V", "W", "X", "Y", "Z", "a", "b", "c", "d",
      "e", "f", "g", "h", "i", "j", "k", "l", "m", "n", "o", "p", "q", "r", "s",
      "t", "u", "v", "w", "x", "y", "z", "0", "1", "2", "3", "4", "5", "6", "7",
      "8", "9", "+", "/">>

B64Char(v) == B64Alphabet[v + 1]

B64Value(c) == (CHOOSE i \in 1..Len(B64Alphabet) : B64Alphabet[i] = c) - 1

IsB64Char(c) == \E i \in 1..Len(B64Alphabet) : B64Alphabet[i] = c

RECURSIVE B64Encode(_)
\* base64.b64encode(bytes).decode("utf-8")
B64Encode(b) ==
    IF Len(b) = 0 THEN <<>>
    ELSE IF Len(b) = 1 THEN
        <<B64Char(b[1] \div 4), B64Char((b[1] % 4) * 16), "=", "=">>
    ELSE IF Len(b) = 2 THEN
        <<B64Char(b[1] \div 4),
          B64Char(((b[1] % 4) * 16) + (b[2] \div 16)),
          B64Char((b[2] % 16) * 4), "=">>
    ELSE
        <<B64Char(b[1] \div 4),
          B64Char(((b[1] % 4) * 16) + (b[2] \div 16)),
          B64Char(((b[2] % 16) * 4) + (b[3] \div 64)),
          B64Char(b[3] % 64)>> \o B64Encode(SubSeq(b, 4, Len(b)))

RECURSIVE B64Scan(_, _, _, _)
\* the scan of binascii.a2b_base64 (not strict): characters outside the
\* alphabet are skipped, and the scan stops where padding completes a quad
B64Scan(s, i, vals, pads) ==
    IF i > Len(s) THEN [vals |-> vals, padded |-> FALSE]
    ELSE IF s[i] = "=" THEN
        IF (Len(vals) % 4) >= 2
        THEN IF (Len(vals) % 4) + pads + 1 >= 4
             THEN [vals |-> vals, padded |-> TRUE]
             ELSE B64Scan(s, i + 1, vals, pads + 1)
        ELSE B64Scan(s, i + 1, vals, pads)
    ELSE IF IsB64Char(s[i]) THEN B64Scan(s, i + 1, Append(vals, B64Value(s[i])), 0)
    ELSE B64Scan(s, i + 1, vals, pads)

RECURSIVE B64Bytes(_)
\* the bytes a sequence of 6-bit values holds
B64Bytes(v) ==
    IF Len(v) < 2 THEN <<>>
    ELSE IF Len(v) = 2 THEN <<(v[1] * 4) + (v[2] \div 16)>>
    ELSE IF Len(v) = 3 THEN
        <<(v[1] * 4) + (v[2] \div 16), ((v[2] % 16) * 16) + (v[3] \div 4)>>
    ELSE
        <<(v[1] * 4) + (v[2] \div 16),
          ((v[2] % 16) * 16) + (v[3] \div 4),
          ((v[3] % 4) * 64) + (v[4])>> \o B64Bytes(SubSeq(v, 5, Len(v)))

\* base64.b64decode(s): ok = FALSE stands for binascii.Error
B64Decode(s) ==
    LET r == B64Scan(s, 1, <<>>, 0)
    IN  IF r.padded \/ (Len(r.vals) % 4) = 0
        THEN [ok |-> TRUE, bytes |-> B64Bytes(r.vals)]
        ELSE [ok |-> FALSE, bytes |-> <<>>]

(***************************************************************************)
(* State                                                                   *)
(***************************************************************************)
VARIABLES
    task_instances,    \* the global of line 26: NoObj, or the id of the call that set it
    pdf_extract_task,  \* the global of line 27: NoObj, or the id of the call that set it
    startup,           \* the startup hook: "none", "ok" or "failed"
    loop,              \* the coroutine the event loop is running: 0, or a request
    pc,                \* each request's position in its code
    req,               \* each request's arguments and what its environment answers
    loc,               \* each request's local variables
    resp,              \* each request's response
    dirs,              \* the directories on disk
    files,             \* the files on disk, [path, data]
    completed,         \* the ids of the initialize_models calls that returned
    called,            \* the pipeline object each request invoked process on
    touched            \* the paths each request opened or looked up

vars == <<task_instances, pdf_extract_task, startup, loop, pc, req, loc, resp,
          dirs, files, completed, called, touched>>

Requests == 1..NReq

\* None, as the value of the two globals
NoObj == 0

\* called[r] before request r has invoked process
NotCalled == -1

\* the id of the objects the startup hook's initialize_models call builds
StartupId == NReq + 1

(***************************************************************************)
(* The file system                                                         *)
(***************************************************************************)
RECURSIVE SplitPath(_)
\* the components of a path, empty ones included
SplitPath(p) ==
    IF \A i \in 1..Len(p) : p[i] # "/" THEN <<p>>
    ELSE LET i == CHOOSE k \in 1..Len(p) :
                    p[k] = "/" /\ \A j \in 1..(k - 1) : p[j] # "/"
         IN  <<SubSeq(p, 1, i - 1)>> \o SplitPath(SubSeq(p, i + 1, Len(p)))

RECURSIVE WalkDirs(_, _, _, _)
\* the directory the first n components lead to from stack; every directory
\* entered must be one of ds
WalkDirs(comps, n, stack, ds) ==
    IF n = 0 THEN [ok |-> TRUE, key |-> stack]
    ELSE LET up == WalkDirs(comps, n - 1, stack, ds)
             c == comps[n]
         IN  IF ~up.ok THEN up
             ELSE IF c = <<>> \/ c = <<".">> THEN up
             ELSE IF c = <<".", ".">>
                  THEN [ok |-> TRUE,
                        key |-> IF up.key = <<>> THEN <<>>
                                ELSE SubSeq(up.key, 1, Len(up.key) - 1)]
             ELSE [ok |-> Append(up.key, c) \in ds, key |-> Append(up.key, c)]

\* what the system resolves an absolute path to: ok when its directory exists,
\* isdir when the path itself names a directory
Resolve(p) ==
    LET comps == SplitPath(p)
        last == comps[Len(comps)]
        parent == WalkDirs(comps, Len(comps) - 1, <<>>, dirs)
    IN  IF ~parent.ok THEN [ok |-> FALSE, isdir |-> FALSE, key |-> <<>>]
        ELSE IF last \in {<<>>, <<".">>, <<".", ".">>}
             THEN [ok |-> TRUE, isdir |-> TRUE, key |-> parent.key]
        ELSE [ok |-> TRUE, isdir |-> Append(parent.key, last) \in dirs,
              key |-> Append(parent.key, last)]

RECURSIVE NormComps(_, _)
\* os.path.normpath of an absolute path, as components
NormComps(comps, n) ==
    IF n = 0 THEN <<>>
    ELSE LET up == NormComps(comps, n - 1)
             c == comps[n]
         IN  IF c = <<>> \/ c = <<".">> THEN up
             ELSE IF c = <<".", ".">>
                  THEN IF up = <<>> THEN <<>> ELSE SubSeq(up, 1, Len(up) - 1)
             ELSE Append(up, c)

NormPath(p) == NormComps(SplitPath(p), Len(SplitPath(p)))

\* open(p, "wb") succeeds
CanOpenWrite(p) == Resolve(p).ok /\ ~Resolve(p).isdir

\* os.path.exists(p)
Exists(p) ==
    /\ Resolve(p).ok
    /\ \/ Resolve(p).isdir
       \/ \E f \in files : f.path = Resolve(p).key

\* the bytes of the file at p
ReadFile(p) == (CHOOSE f \in files : f.path = Resolve(p).key).data

\* the files after bytes b are written to p
WriteFile(fs, key, b) ==
    {f \in fs : f.path # key} \cup {[path |-> key, data |-> b]}

IsUnder(key, dir) == Len(key) > Len(dir) /\ SubSeq(key, 1, Len(dir)) = dir

Digits == <<"1", "2", "3", "4", "5", "6", "7", "8", "9">>

\* the directory tempfile.TemporaryDirectory() makes for request r
TempDir(r) == <<"/", "t", "/", "w", Digits[r]>>

TempKey(r) == <<<<"t">>, <<"w", Digits[r]>>>>

\* TemporaryDirectory.cleanup(): the directory and everything under it goes
RmTreeDirs(ds, r) == {d \in ds : d # TempKey(r) /\ ~IsUnder(d, TempKey(r))}

RmTreeFiles(fs, r) == {f \in fs : ~IsUnder(f.path, TempKey(r))}

(***************************************************************************)
(* Requests and what their environment answers                             *)
(***************************************************************************)
\* file names an upload may carry
UploadNames ==
    { <<"a", ".", "p", "d", "f">>,
      <<"n", ".", "v", "1", ".", "p", "d", "f">>,
      <<"s", "c", "a", "n", ".", "j", "p", "e", "g">>,
      <<"n", "o", "e", "x", "t">>,
      <<".", ".", "/", "e", ".", "p", "d", "f">>,
      <<"/", "e", ".", "p", "d", "f">>,
      <<"s", "u", "b", "/", "x", ".", "p", "d", "f">> }

\* Content-Type headers a download may answer with
ContentTypes ==
    { <<>>,
      <<"a", "p", "p", "l", "i", "c", "a", "t", "i", "o", "n", "/", "p", "d", "f">>,
      <<"A", "p", "p", "l", "i", "c", "a", "t", "i", "o", "n", "/", "P", "D", "F">>,
      <<"i", "m", "a", "g", "e", "/", "p", "n", "g">>,
      <<"I", "M", "A", "G", "E", "/", "P", "N", "G">>,
      <<"t", "e", "x", "t", "/", "h", "t", "m", "l">> }

Urls ==
    { <<"h", "t", "t", "p", ":", "/", "/", "h", "/", "a", ".", "j", "p", "g">>,
      <<"h", "t", "t", "p", ":", "/", "/", "h", "/", "a">>,
      <<"h", "t", "t", "p", ":", "/", "/", "h", ".", "i", "o">>,
      <<"h", "t", "t", "p", ":", "/", "/", "h", "/", "a", ".", "b", "/", "c">>,
      <<"h", "t", "t", "p", ":", "/", "/", "h", "/", "a", ".", "j", "p", "e", "g">> }

\* file_base64 values: "JVBE", "JQ==", "JQ=" (bad padding), "J" (bad length), ""
Base64Texts ==
    { <<"J", "V", "B", "E">>, <<"J", "Q", "=", "=">>, <<"J", "Q", "=">>, <<"J">>, <<>> }

UploadBytes == <<37, 80>>
BodyBytes == <<37, 80, 68, 70>>
MdText == <<35, 32, 72>>
PngBytes == <<137, 80, 78>>
PdfVisBytes == <<37, 86>>

\* what the pipeline's process call does: it raises, or it returns after
\* writing any of <stem>.md, <stem>.png, <stem>.pdf into save_dir, where stem
\* is the input's name without its extension ("splitext") or without its
\* last four characters ("fixed4"). An artifact is <<>> when not written
\* and <<bytes>> when written.
PipeRaises ==
    [raises |-> TRUE, md |-> <<>>, png |-> <<>>, pdf |-> <<>>, stem |-> "splitext"]

PipeOutcomes ==
    {PipeRaises} \cup
    [raises : {FALSE},
     md : {<<>>, <<<<>>>>, <<MdText>>},
     png : {<<>>, <<PngBytes>>},
     pdf : {<<>>, <<<<>>>>, <<PdfVisBytes>>},
     stem : {"splitext", "fixed4"}]

\* a download that fails (network error, timeout, raise_for_status)
DlFails == [ok |-> FALSE, ctype |-> <<>>, body |-> <<>>]

Downloads == {DlFails} \cup [ok : {TRUE}, ctype : ContentTypes, body : {BodyBytes}]

NoReq ==
    [surface |-> "none", kind |-> "none", name |-> <<>>, bytes |-> <<>>,
     b64 |-> <<>>, url |-> <<>>, dl |-> DlFails, visualize |-> FALSE,
     merge2markdown |-> FALSE, pipe |-> PipeRaises]

\* the shapes of a request: POST /process with neither field, with a file,
\* with a url; an event with no input mapping, with an empty one, with
\* file_base64, with url
Shapes(names, texts, urls, dls) ==
    {[NoReq EXCEPT !.surface = "http", !.kind = "none"]}
    \cup {[NoReq EXCEPT !.surface = "http", !.kind = "file", !.name = n,
                        !.bytes = UploadBytes] : n \in names}
    \cup {[NoReq EXCEPT !.surface = "http", !.kind = "url", !.url = x[1],
                        !.dl = x[2]] : x \in urls \X dls}
    \cup {[NoReq EXCEPT !.surface = "event", !.kind = "nomap"]}
    \cup {[NoReq EXCEPT !.surface = "event", !.kind = "none"]}
    \cup {[NoReq EXCEPT !.surface = "event", !.kind = "b64", !.b64 = t] : t \in texts}
    \cup {[NoReq EXCEPT !.surface = "event", !.kind = "url", !.url = x[1],
                        !.dl = x[2]] : x \in urls \X dls}

\* requests of the given shapes with every choice of the two options and
\* every given pipeline outcome
Family(shapes, pipes) ==
    {[x[1] EXCEPT !.visualize = x[2], !.merge2markdown = x[3], !.pipe = x[4]] :
        x \in shapes \X BOOLEAN \X BOOLEAN \X pipes}

PipeMd ==
    [raises |-> FALSE, md |-> <<MdText>>, png |-> <<>>, pdf |-> <<>>,
     stem |-> "splitext"]

\* every request the sequential specification serves: every shape with a
\* pipeline that raises or writes its markdown, and every upload, one
\* payload and the downloads of one url with every pipeline outcome
AllRequests ==
    Family(Shapes(UploadNames, Base64Texts, Urls, Downloads), {PipeRaises, PipeMd})
    \cup
    Family(Shapes(UploadNames, {<<"J", "V", "B", "E">>},
                  {<<"h", "t", "t", "p", ":", "/", "/", "h", "/", "a", ".", "j", "p", "e", "g">>},
                  [ok : {TRUE},
                   ctype : {<<>>, <<"i", "m", "a", "g", "e", "/", "p", "n", "g">>,
                            <<"a", "p", "p", "l", "i", "c", "a", "t", "i", "o", "n", "/", "p", "d", "f">>},
                   body : {BodyBytes}]),
           PipeOutcomes)

NoLoc ==
    [entered |-> FALSE, has_path |-> FALSE, file_path |-> <<>>, exc |-> "none",
     stage |-> "none", markdown_content |-> <<>>, visualization_data |-> <<>>]

\* status is the HTTP status (0 on the event surface, which has none); fault
\* says that an exception left the function unhandled
NoResp ==
    [status |-> 0, fault |-> FALSE, keys |-> {}, markdown |-> <<>>,
     visualization |-> <<>>]

Init ==
    /\ task_instances = NoObj
    /\ pdf_extract_task = NoObj
    /\ startup = "none"
    /\ loop = 0
    /\ pc = [r \in Requests |-> "idle"]
    /\ req = [r \in Requests |-> NoReq]
    /\ loc = [r \in Requests |-> NoLoc]
    /\ resp = [r \in Requests |-> NoResp]
    /\ dirs = {<<>>, <<<<"t">>>>}
    /\ files = {}
    /\ completed = {}
    /\ called = [r \in Requests |-> NotCalled]
    /\ touched = [r \in Requests |-> {}]

(***************************************************************************)
(* The code's pure steps                                                   *)
(***************************************************************************)
\* process_pdf, had it taken the url's extension before the content type
ProcessPdfExtUrlFirst(content_type, url) ==
    IF SplitExt(url)[2] # <<>> THEN SplitExt(url)[2]
    ELSE IF Contains(Lower(content_type), StrPdf) THEN DotPdf
    ELSE IF Contains(Lower(content_type), StrImage) THEN DotPng
    ELSE DotPdf

\* process_pdf, lines 118-127: the extension of the downloaded file
ProcessPdfExt(content_type, url) ==
    IF Contains(Lower(content_type), StrPdf) THEN DotPdf
    ELSE IF Contains(Lower(content_type), StrImage) THEN DotPng
    ELSE IF SplitExt(url)[2] # <<>> THEN SplitExt(url)[2]
    ELSE DotPdf

\* handler, lines 211-220: the extension of the downloaded file
HandlerExt(content_type, url) ==
    IF Contains(Lower(content_type), StrPdf) THEN DotPdf
    ELSE IF Contains(Lower(content_type), StrImage) THEN DotPng
    ELSE IF SplitExt(url)[2] # <<>> THEN SplitExt(url)[2]
    ELSE DotPdf

\* process_pdf, lines 141 and 150: the artifacts' basename
ProcessPdfBasename(file_path) == DropLast4(BaseName(file_path))

\* handler, lines 241 and 250: the artifacts' basename
HandlerBasename(file_path) == DropLast4(BaseName(file_path))

\* lines 140-145 (240-245): markdown_content, <<text>> when read and <<>>
\* when left None
ReadMarkdown(temp_dir, basename, merge2markdown) ==
    LET md_path == PathJoin(temp_dir, basename \o DotMd)
    IN  IF merge2markdown /\ Exists(md_path) THEN <<ReadFile(md_path)>> ELSE <<>>

\* the path of the visualization, had lines 152-153 been left out
VisPathPngOnly(temp_dir, basename, file_path) ==
    PathJoin(temp_dir, basename \o DotPng)

\* lines 151-153 (251-253): the path the visualization is read from
VisPath(temp_dir, basename, file_path) ==
    LET vis_path == PathJoin(temp_dir, basename \o DotPng)
    IN  IF ~Exists(vis_path) /\ EndsWith(file_path, DotPdf)
        THEN PathJoin(temp_dir, basename \o DotPdf)
        ELSE vis_path

\* lines 149-157 (249-257): visualization_data, <<text>> when read and <<>>
\* when left None
ReadVisualization(temp_dir, basename, file_path, visualize) ==
    LET vis_path == VisPath(temp_dir, basename, file_path)
    IN  IF visualize /\ Exists(vis_path)
        THEN <<B64Encode(ReadFile(vis_path))>>
        ELSE <<>>

\* the paths lines 140-157 (240-257) look up
Lookups(temp_dir, basename, file_path, visualize, merge2markdown) ==
    (IF merge2markdown THEN {PathJoin(temp_dir, basename \o DotMd)} ELSE {})
    \cup (IF visualize
          THEN {PathJoin(temp_dir, basename \o DotPng),
                VisPath(temp_dir, basename, file_path)}
          ELSE {})

\* Python's truth value of an optional text: None and "" are false
Truthy(opt) == opt # <<>> /\ opt[1] # <<>>

\* lines 160-169 (260-269): the keys of response_data
EnvelopeKeys(l) ==
    {"success", "results"}
    \cup (IF Truthy(l.markdown_content) THEN {"markdown"} ELSE {})
    \cup (IF Truthy(l.visualization_data) THEN {"visualization"} ELSE {})

\* lines 160-171 (260-271): the success response
Envelope(status, l) ==
    [status |-> status, fault |-> FALSE, keys |-> EnvelopeKeys(l),
     markdown |-> IF Truthy(l.markdown_content) THEN l.markdown_content[1] ELSE <<>>,
     visualization |->
        IF Truthy(l.visualization_data) THEN l.visualization_data[1] ELSE <<>>]

\* a response without artifacts
Plain(status, fault, keys) ==
    [status |-> status, fault |-> fault, keys |-> keys, markdown |-> <<>>,
     visualization |-> <<>>]

(***************************************************************************)
(* The pipeline (pdf_extract_task.process), outside this file              *)
(***************************************************************************)
\* the stem the pipeline names its artifacts by
PipeStem(file_path, q) ==
    IF q.pipe.stem = "splitext" THEN SplitExt(BaseName(file_path))[1]
    ELSE DropLast4(BaseName(file_path))

\* the files after the artifact of suffix sfx, if any, is written
PipeWrite(fs, r, stem, sfx, art) ==
    IF art = <<>> THEN fs ELSE WriteFile(fs, Append(TempKey(r), stem \o sfx), art[1])

\* the files after process(file_path, save_dir = the temporary directory)
PipelineWrites(fs, r, file_path, q) ==
    LET stem == PipeStem(file_path, q)
    IN  PipeWrite(PipeWrite(PipeWrite(fs, r, stem, DotMd, q.pipe.md),
                            r, stem, DotPng, q.pipe.png),
                  r, stem, DotPdf, q.pipe.pdf)

(***************************************************************************)
(* Actions                                                                 *)
(***************************************************************************)
\* a coroutine of the HTTP application runs only while the event loop is its
\* own; the handler function runs on its caller's thread
OnLoop(r) == req[r].surface = "http" => loop = r

\* the request leaves its block at the given stage: exc is "error" for an
\* exception, "http400" for process_pdf's HTTPException, "ret_error" for
\* handler's return of an error mapping
Leave(r, exc, stage) ==
    /\ loc' = [loc EXCEPT ![r].exc = exc, ![r].stage = stage]
    /\ pc' = [pc EXCEPT ![r] = "exit"]

Raise(r, stage) == Leave(r, "error", stage)

\* a request arrives: POST /process is dispatched to process_pdf once the
\* loop is free (and only by an application that started), an event is
\* handed to handler at any time
Begin(r, q) ==
    /\ pc[r] = "idle"
    /\ req' = [req EXCEPT ![r] = q]
    /\ IF q.surface = "http"
       THEN /\ loop = 0
            /\ startup # "failed"
            /\ loop' = r
            /\ pc' = [pc EXCEPT ![r] = "p_check"]
       ELSE /\ loop' = loop
            /\ pc' = [pc EXCEPT ![r] = "h_check"]
    /\ UNCHANGED <<task_instances, pdf_extract_task, startup, loc, resp, dirs,
                   files, completed, called, touched>>

\* startup_event, lines 51-54: initialize_models before any request, which
\* fails in load_config ("f35"), in initialize_tasks_and_models ("f38"),
\* while the pipeline is built ("f47"), or returns
Startup ==
    /\ startup = "none"
    /\ \A r \in Requests : pc[r] = "idle"
    /\ \E o \in {"f35", "f38", "f47", "ok"} :
        /\ startup' = IF o = "ok" THEN "ok" ELSE "failed"
        /\ task_instances' = IF o \in {"f47", "ok"} THEN StartupId ELSE task_instances
        /\ pdf_extract_task' = IF o = "ok" THEN StartupId ELSE pdf_extract_task
        /\ completed' = IF o = "ok" THEN completed \cup {StartupId} ELSE completed
    /\ UNCHANGED <<loop, pc, req, loc, resp, dirs, files, called, touched>>

\* process_pdf, had it no lines 98-99
ProcessPdfCheckMissing(r) ==
    /\ pc[r] = "p_check"
    /\ loop = r
    /\ pc' = [pc EXCEPT ![r] = "tmp"]
    /\ UNCHANGED <<task_instances, pdf_extract_task, startup, loop, req, loc,
                   resp, dirs, files, completed, called, touched>>

\* process_pdf, lines 98-99
ProcessPdfCheck(r) ==
    /\ pc[r] = "p_check"
    /\ loop = r
    /\ IF req[r].kind = "none"
       THEN Leave(r, "http400", "input")
       ELSE /\ loc' = loc
            /\ pc' = [pc EXCEPT ![r] = "tmp"]
    /\ UNCHANGED <<task_instances, pdf_extract_task, startup, loop, req, resp,
                   dirs, files, completed, called, touched>>

\* handler, had line 186 tested task_instances alone
HandlerCheckTasksOnly(r) ==
    /\ pc[r] = "h_check"
    /\ pc' = [pc EXCEPT ![r] = IF task_instances = NoObj THEN "i35" ELSE "tmp"]
    /\ UNCHANGED <<task_instances, pdf_extract_task, startup, loop, req, loc,
                   resp, dirs, files, completed, called, touched>>

\* handler, line 186
HandlerCheck(r) ==
    /\ pc[r] = "h_check"
    /\ pc' = [pc EXCEPT ![r] =
                IF task_instances = NoObj \/ pdf_extract_task = NoObj
                THEN "i35" ELSE "tmp"]
    /\ UNCHANGED <<task_instances, pdf_extract_task, startup, loop, req, loc,
                   resp, dirs, files, completed, called, touched>>

\* initialize_models, lines 34-35: load_config returns or raises
InitLoadConfig(r) ==
    /\ pc[r] = "i35"
    /\ OnLoop(r)
    /\ \E ok \in BOOLEAN :
        IF ok THEN pc' = [pc EXCEPT ![r] = "i38"] /\ loc' = loc
        ELSE Raise(r, "init")
    /\ UNCHANGED <<task_instances, pdf_extract_task, startup, loop, req, resp,
                   dirs, files, completed, called, touched>>

\* initialize_models, line 38: task_instances is assigned, unless
\* initialize_tasks_and_models raises
InitTasks(r) ==
    /\ pc[r] = "i38"
    /\ OnLoop(r)
    /\ \E ok \in BOOLEAN :
        IF ok
        THEN /\ task_instances' = r
             /\ pc' = [pc EXCEPT ![r] = "i47"]
             /\ loc' = loc
        ELSE /\ task_instances' = task_instances
             /\ Raise(r, "init")
    /\ UNCHANGED <<pdf_extract_task, startup, loop, req, resp, dirs, files,
                   completed, called, touched>>

\* where initialize_models returns to: line 190 of handler, line 74 of
\* process_pdf_file
AfterInit(r) == IF req[r].surface = "event" THEN "tmp" ELSE "process"

\* initialize_models, lines 41-49: pdf_extract_task is assigned and the call
\* returns, unless a model lookup or the pipeline's constructor raises
InitPipeline(r) ==
    /\ pc[r] = "i47"
    /\ OnLoop(r)
    /\ \E ok \in BOOLEAN :
        IF ok
        THEN /\ pdf_extract_task' = r
             /\ completed' = completed \cup {r}
             /\ pc' = [pc EXCEPT ![r] = AfterInit(r)]
             /\ loc' = loc
        ELSE /\ pdf_extract_task' = pdf_extract_task
             /\ completed' = completed
             /\ Raise(r, "init")
    /\ UNCHANGED <<task_instances, startup, loop, req, resp, dirs, files,
                   called, touched>>

\* lines 102 and 193: tempfile.TemporaryDirectory().__enter__()
EnterWorkspace(r) ==
    /\ pc[r] = "tmp"
    /\ OnLoop(r)
    /\ dirs' = dirs \cup {TempKey(r)}
    /\ loc' = [loc EXCEPT ![r].entered = TRUE]
    /\ pc' = [pc EXCEPT ![r] = "resolve"]
    /\ UNCHANGED <<task_instances, pdf_extract_task, startup, loop, req, resp,
                   files, completed, called, touched>>

\* process_pdf, lines 103-133: the upload is opened for writing (its bytes
\* are awaited next), or the url is fetched and written; a failure of the
\* fetch or of the write is answered with status 400, a failure to open the
\* upload's path propagates
ProcessPdfResolve(r) ==
    LET q == req[r]
        up_path == PathJoin(TempDir(r), q.name)
        dl_path == PathJoin(TempDir(r), Downloaded \o ProcessPdfExt(q.dl.ctype, q.url))
    IN
    /\ pc[r] = "resolve"
    /\ q.surface = "http"
    /\ loop = r
    /\ IF q.kind = "file" THEN
            /\ touched' = [touched EXCEPT ![r] = @ \cup {up_path}]
            /\ IF CanOpenWrite(up_path)
               THEN /\ files' = WriteFile(files, Resolve(up_path).key, <<>>)
                    /\ loc' = [loc EXCEPT ![r].has_path = TRUE,
                                          ![r].file_path = up_path]
                    /\ pc' = [pc EXCEPT ![r] = "p_write"]
                    /\ loop' = 0
               ELSE /\ files' = files
                    /\ loc' = [loc EXCEPT ![r].has_path = TRUE,
                                          ![r].file_path = up_path,
                                          ![r].exc = "error",
                                          ![r].stage = "resolve"]
                    /\ pc' = [pc EXCEPT ![r] = "exit"]
                    /\ loop' = loop
       ELSE IF q.kind = "url" THEN
            /\ loop' = loop
            /\ IF q.dl.ok /\ CanOpenWrite(dl_path)
               THEN /\ touched' = [touched EXCEPT ![r] = @ \cup {dl_path}]
                    /\ files' = WriteFile(files, Resolve(dl_path).key, q.dl.body)
                    /\ loc' = [loc EXCEPT ![r].has_path = TRUE,
                                          ![r].file_path = dl_path]
                    /\ pc' = [pc EXCEPT ![r] = "f_check"]
               ELSE /\ touched' = touched
                    /\ files' = files
                    /\ Leave(r, "http400", "resolve")
       ELSE /\ pc' = [pc EXCEPT ![r] = "f_check"]
            /\ UNCHANGED <<loop, touched, files, loc>>
    /\ UNCHANGED <<task_instances, pdf_extract_task, startup, req, resp, dirs,
                   completed, called>>

\* process_pdf, line 109: the awaited bytes of the upload are written
ProcessPdfWrite(r) ==
    /\ pc[r] = "p_write"
    /\ loop = 0
    /\ loop' = r
    /\ files' = WriteFile(files, Resolve(loc[r].file_path).key, req[r].bytes)
    /\ pc' = [pc EXCEPT ![r] = "f_check"]
    /\ UNCHANGED <<task_instances, pdf_extract_task, startup, req, loc, resp,
                   dirs, completed, called, touched>>

\* handler, lines 190-229: file_base64 is decoded and written, or the url is
\* fetched and written; a failed decode raises, a failed fetch or no input
\* returns an error mapping
HandlerResolve(r) ==
    LET q == req[r]
        in_path == PathJoin(TempDir(r), InputPdf)
        dl_path == PathJoin(TempDir(r), Downloaded \o HandlerExt(q.dl.ctype, q.url))
    IN
    /\ pc[r] = "resolve"
    /\ q.surface = "event"
    /\ IF q.kind = "b64" THEN
            IF B64Decode(q.b64).ok /\ CanOpenWrite(in_path)
            THEN /\ touched' = [touched EXCEPT ![r] = @ \cup {in_path}]
                 /\ files' = WriteFile(files, Resolve(in_path).key,
                                       B64Decode(q.b64).bytes)
                 /\ loc' = [loc EXCEPT ![r].has_path = TRUE,
                                       ![r].file_path = in_path]
                 /\ pc' = [pc EXCEPT ![r] = "process"]
            ELSE /\ Raise(r, "resolve")
                 /\ UNCHANGED <<touched, files>>
       ELSE IF q.kind = "url" THEN
            IF q.dl.ok /\ CanOpenWrite(dl_path)
            THEN /\ touched' = [touched EXCEPT ![r] = @ \cup {dl_path}]
                 /\ files' = WriteFile(files, Resolve(dl_path).key, q.dl.body)
                 /\ loc' = [loc EXCEPT ![r].has_path = TRUE,
                                       ![r].file_path = dl_path]
                 /\ pc' = [pc EXCEPT ![r] = "process"]
            ELSE /\ Leave(r, "ret_error", "resolve")
                 /\ UNCHANGED <<touched, files>>
       ELSE /\ Leave(r, "ret_error", "input")
            /\ UNCHANGED <<touched, files>>
    /\ UNCHANGED <<task_instances, pdf_extract_task, startup, loop, req, resp,
                   dirs, completed, called>>

\* process_pdf_file, line 70
ProcessPdfFileCheck(r) ==
    /\ pc[r] = "f_check"
    /\ loop = r
    /\ pc' = [pc EXCEPT ![r] = IF pdf_extract_task = NoObj THEN "i35" ELSE "process"]
    /\ UNCHANGED <<task_instances, pdf_extract_task, startup, loop, req, loc,
                   resp, dirs, files, completed, called, touched>>

\* pdf_extract_task.process(file_path, save_dir=temp_dir, ...): the global is
\* read; None has no process, and the pipeline raises or writes its artifacts
InvokeProcess(r) ==
    /\ called' = [called EXCEPT ![r] = pdf_extract_task]
    /\ IF pdf_extract_task = NoObj \/ req[r].pipe.raises
       THEN /\ Raise(r, "process")
            /\ files' = files
       ELSE /\ files' = IF loc[r].has_path
                        THEN PipelineWrites(files, r, loc[r].file_path, req[r])
                        ELSE files
            /\ loc' = loc
            /\ pc' = [pc EXCEPT ![r] = "asm"]

\* process_pdf_file, lines 74-77
ProcessPdfFileProcess(r) ==
    /\ pc[r] = "process"
    /\ req[r].surface = "http"
    /\ loop = r
    /\ InvokeProcess(r)
    /\ UNCHANGED <<task_instances, pdf_extract_task, startup, loop, req, resp,
                   dirs, completed, touched>>

\* handler, lines 232-236
HandlerProcess(r) ==
    /\ pc[r] = "process"
    /\ req[r].surface = "event"
    /\ InvokeProcess(r)
    /\ UNCHANGED <<task_instances, pdf_extract_task, startup, loop, req, resp,
                   dirs, completed, touched>>

\* lines 138-157 (238-257) with the basename the surface derived;
\* os.path.basename(None) raises
Assemble(r, basename) ==
    LET q == req[r]
        l == loc[r]
    IN  IF ~l.has_path
        THEN /\ touched' = touched
             /\ IF q.merge2markdown \/ q.visualize
                THEN Raise(r, "assemble")
                ELSE loc' = loc /\ pc' = [pc EXCEPT ![r] = "exit"]
        ELSE /\ touched' =
                    [touched EXCEPT ![r] =
                        @ \cup Lookups(TempDir(r), basename, l.file_path,
                                       q.visualize, q.merge2markdown)]
             /\ loc' =
                    [loc EXCEPT
                        ![r].markdown_content =
                            ReadMarkdown(TempDir(r), basename, q.merge2markdown),
                        ![r].visualization_data =
                            ReadVisualization(TempDir(r), basename, l.file_path,
                                              q.visualize)]
             /\ pc' = [pc EXCEPT ![r] = "exit"]

\* process_pdf, lines 138-169
ProcessPdfAssemble(r) ==
    /\ pc[r] = "asm"
    /\ req[r].surface = "http"
    /\ loop = r
    /\ Assemble(r, IF loc[r].has_path THEN ProcessPdfBasename(loc[r].file_path)
                   ELSE <<>>)
    /\ UNCHANGED <<task_instances, pdf_extract_task, startup, loop, req, resp,
                   dirs, files, completed, called>>

\* handler, lines 238-269
HandlerAssemble(r) ==
    /\ pc[r] = "asm"
    /\ req[r].surface = "event"
    /\ Assemble(r, IF loc[r].has_path THEN HandlerBasename(loc[r].file_path)
                   ELSE <<>>)
    /\ UNCHANGED <<task_instances, pdf_extract_task, startup, loop, req, resp,
                   dirs, files, completed, called>>

\* had the directory been removed by a call after the block's last statement
CleansUpOnSuccess(r) == loc[r].entered /\ loc[r].exc = "none"

\* whether leaving the block of line 102 (193) removes the directory: the
\* with statement does on every way out, once the directory was made
CleansUp(r) == loc[r].entered

\* process_pdf's answer, had the download not been wrapped in try/except
ProcessPdfResponseNoTry(r) ==
    IF loc[r].exc = "none" THEN Envelope(200, loc[r])
    ELSE IF loc[r].exc = "http400" /\ loc[r].stage = "input"
         THEN Plain(400, FALSE, {"detail"})
    ELSE Plain(500, TRUE, {})

\* process_pdf's answer: the envelope (line 171), the HTTPException of line
\* 99 or 133, or whatever else was raised, which the application answers
\* with status 500
ProcessPdfResponse(r) ==
    IF loc[r].exc = "none" THEN Envelope(200, loc[r])
    ELSE IF loc[r].exc = "http400" THEN Plain(400, FALSE, {"detail"})
    ELSE Plain(500, TRUE, {})

\* handler's answer, had it no except clause
HandlerResponseUncaught(r) ==
    IF loc[r].exc = "none" THEN Envelope(0, loc[r])
    ELSE IF loc[r].exc = "ret_error" THEN Plain(0, FALSE, {"error"})
    ELSE Plain(0, TRUE, {})

\* handler's answer: the mapping of line 271, of lines 226 and 229, or of
\* line 275
HandlerResponse(r) ==
    IF loc[r].exc = "none" THEN Envelope(0, loc[r])
    ELSE IF loc[r].exc = "ret_error" THEN Plain(0, FALSE, {"error"})
    ELSE Plain(0, FALSE, {"error", "traceback"})

\* process_pdf leaves the with block, if it entered it, and answers
ProcessPdfExit(r) ==
    /\ pc[r] = "exit"
    /\ req[r].surface = "http"
    /\ loop = r
    /\ dirs' = IF CleansUp(r) THEN RmTreeDirs(dirs, r) ELSE dirs
    /\ files' = IF CleansUp(r) THEN RmTreeFiles(files, r) ELSE files
    /\ resp' = [resp EXCEPT ![r] = ProcessPdfResponse(r)]
    /\ loop' = 0
    /\ pc' = [pc EXCEPT ![r] = "done"]
    /\ UNCHANGED <<task_instances, pdf_extract_task, startup, req, loc,
                   completed, called, touched>>

\* handler leaves the with block, if it entered it, and returns, from the
\* try block or from its except clause (lines 273-275)
HandlerExit(r) ==
    /\ pc[r] = "exit"
    /\ req[r].surface = "event"
    /\ dirs' = IF CleansUp(r) THEN RmTreeDirs(dirs, r) ELSE dirs
    /\ files' = IF CleansUp(r) THEN RmTreeFiles(files, r) ELSE files
    /\ resp' = [resp EXCEPT ![r] = HandlerResponse(r)]
    /\ pc' = [pc EXCEPT ![r] = "done"]
    /\ UNCHANGED <<task_instances, pdf_extract_task, startup, loop, req, loc,
                   completed, called, touched>>

\* a step of request r's code
Step(r) ==
    \/ ProcessPdfCheck(r)
    \/ HandlerCheck(r)
    \/ InitLoadConfig(r)
    \/ InitTasks(r)
    \/ InitPipeline(r)
    \/ EnterWorkspace(r)
    \/ ProcessPdfResolve(r)
    \/ ProcessPdfWrite(r)
    \/ HandlerResolve(r)
    \/ ProcessPdfFileCheck(r)
    \/ ProcessPdfFileProcess(r)
    \/ HandlerProcess(r)
    \/ ProcessPdfAssemble(r)
    \/ HandlerAssemble(r)
    \/ ProcessPdfExit(r)
    \/ HandlerExit(r)

(***************************************************************************)
(* Specifications                                                          *)
(***************************************************************************)
\* one request, any of AllRequests, in a process whose startup hook may or
\* may not have run
BeginOne == pc[1] = "idle" /\ \E q \in AllRequests : Begin(1, q)

Next == Startup \/ BeginOne \/ Step(1)

Spec == Init /\ [][Next]_vars

\* the requests the concurrent specification draws from: an upload, an
\* event with a payload and an event without input, with a pipeline that
\* writes its markdown
ConcRequests ==
    {q \in Family(Shapes({<<"a", ".", "p", "d", "f">>}, {<<"J", "Q", "=", "=">>}, {}, {}),
                  {PipeMd}) :
        /\ ~q.visualize
        /\ q.merge2markdown
        /\ q.kind \in {"file", "b64", "nomap"}}

BeginAny ==
    \E r \in Requests : pc[r] = "idle" /\ \E q \in ConcRequests : Begin(r, q)

StepAny == \E r \in Requests : Step(r)

NextConc == Startup \/ BeginAny \/ StepAny

\* NReq requests in any interleaving: handler on threads of its callers,
\* process_pdf as coroutines of one event loop
SpecConc == Init /\ [][NextConc]_vars

(***************************************************************************)
(* Properties                                                              *)
(***************************************************************************)
Done(r) == pc[r] = "done"

OnHttp(r) == req[r].surface = "http"

OnEvent(r) == req[r].surface = "event"

\* the request returned the success envelope
Succeeded(r) == Done(r) /\ loc[r].exc = "none"

\* C1: once a request has completed, on any exit path, its workspace
\* directory and everything in it are gone from the disk.
C1_WorkspaceGone ==
    \A r \in Requests :
        Done(r) =>
            /\ TempKey(r) \notin dirs
            /\ \A f \in files : ~IsUnder(f.path, TempKey(r))

\* a request that made its workspace and left it by an exception of the
\* pipeline's process call has completed
C1_Witness ==
    \E r \in Requests :
        /\ Done(r)
        /\ loc[r].entered
        /\ loc[r].stage = "process"
        /\ TempKey(r) \notin dirs

\* C2: a request that carries no input is answered with status 400 on the
\* HTTP surface and with a mapping holding an error key on the event
\* surface, and no exception escapes either function.
C2_NoInputRejected ==
    \A r \in Requests :
        (Done(r) /\ req[r].kind \in {"none", "nomap"}) =>
            /\ ~resp[r].fault
            /\ OnHttp(r) => resp[r].status = 400
            /\ OnEvent(r) => "error" \in resp[r].keys

\* POST /process with neither file nor url was answered 400
C2_Witness ==
    \E r \in Requests :
        /\ Done(r)
        /\ OnHttp(r)
        /\ req[r].kind = "none"
        /\ resp[r].status = 400

\* the failure of an event was a missing input or a failed download
FailedBeforeRaise(r) ==
    \/ loc[r].stage = "input"
    \/ loc[r].stage = "resolve" /\ req[r].kind = "url"

\* C3, as claimed: handler never raises, and after a failure at any stage
\* its mapping holds the error key and the stack trace key and no success
\* key.
C3_Original ==
    \A r \in Requests :
        (Done(r) /\ OnEvent(r)) =>
            /\ ~resp[r].fault
            /\ loc[r].stage # "none" =>
                /\ "error" \in resp[r].keys
                /\ "traceback" \in resp[r].keys
                /\ "success" \notin resp[r].keys

\* C3, amended: handler never raises, and after a failure at any stage its
\* mapping holds the error key and no success key; it holds the stack trace
\* (under the key traceback) exactly when the failure was an exception
\* (initialization, base64 decode, the pipeline's process), and not when the
\* input was missing or the download failed.
C3_ErrorMapping ==
    \A r \in Requests :
        (Done(r) /\ OnEvent(r)) =>
            /\ ~resp[r].fault
            /\ loc[r].stage # "none" =>
                /\ "error" \in resp[r].keys
                /\ "success" \notin resp[r].keys
                /\ "traceback" \in resp[r].keys <=> ~FailedBeforeRaise(r)

\* an event whose download failed got a mapping with the error key alone
C3_Witness ==
    \E r \in Requests :
        /\ Done(r)
        /\ OnEvent(r)
        /\ req[r].kind = "url"
        /\ loc[r].stage = "resolve"
        /\ resp[r].keys = {"error"}

\* C4: process is only invoked on a pipeline object that a completed
\* initialize_models call produced, never on the unset reference, and a
\* request whose own initialization failed ends in an error without
\* invoking process.
C4_ProcessOnInitialized ==
    \A r \in Requests :
        /\ called[r] # NotCalled =>
            /\ called[r] # NoObj
            /\ called[r] \in completed
        /\ loc[r].stage = "init" =>
            /\ called[r] = NotCalled
            /\ Done(r) => IF OnHttp(r) THEN resp[r].status = 500
                          ELSE "error" \in resp[r].keys /\ "success" \notin resp[r].keys

\* one request's initialization failed after task_instances was set, and
\* another request invoked process on the pipeline its own call built
C4_Witness ==
    \E r, o \in Requests :
        /\ r # o
        /\ Done(o)
        /\ loc[o].stage = "init"
        /\ task_instances # NoObj
        /\ called[r] = r

\* the extension a url carries: from the last dot of its last segment,
\* when something other than dots precedes that dot in the segment
UrlOwnExt(url) ==
    LET dots == {i \in 1..Len(url) :
                    /\ url[i] = "."
                    /\ \A j \in (i + 1)..Len(url) : url[j] \notin {".", "/"}
                    /\ \E k \in 1..(i - 1) :
                        /\ url[k] # "."
                        /\ \A m \in k..i : url[m] # "/"}
    IN  IF dots = {} THEN <<>> ELSE SubSeq(url, CHOOSE i \in dots : TRUE, Len(url))

\* the precedence of the claim
ExpectedExt(content_type, url) ==
    IF Contains(Lower(content_type), StrPdf) THEN DotPdf
    ELSE IF Contains(Lower(content_type), StrImage) THEN DotPng
    ELSE IF UrlOwnExt(url) # <<>> THEN UrlOwnExt(url)
    ELSE DotPdf

\* request r fetched its url and wrote the body
HasDownloaded(r) == req[r].kind = "url" /\ req[r].dl.ok /\ loc[r].has_path

\* what follows "downloaded" in the name of the file request r wrote
WrittenExt(r) ==
    SubSeq(loc[r].file_path, Len(TempDir(r)) + 1 + Len(Downloaded) + 1,
           Len(loc[r].file_path))

\* C5: on both surfaces the downloaded file is workspace/downloaded<ext>
\* with ext decided by the content type first ("pdf", then "image", case
\* ignored), then by the url's own extension, then .pdf; the four examples
\* of the claim included.
C5_Extension ==
    \A r \in Requests :
        HasDownloaded(r) =>
            LET ct == req[r].dl.ctype
                url == req[r].url
                jpg == <<".", "j", "p", "g">>
            IN  /\ loc[r].file_path =
                        TempDir(r) \o <<"/">> \o Downloaded \o ExpectedExt(ct, url)
                /\ pc[r] \in {"f_check", "process"} =>
                        [path |-> Append(TempKey(r), Downloaded \o ExpectedExt(ct, url)),
                         data |-> req[r].dl.body] \in files
                /\ ct = <<"a", "p", "p", "l", "i", "c", "a", "t", "i", "o", "n", "/", "p", "d", "f">>
                        => WrittenExt(r) = DotPdf
                /\ (ct = <<"i", "m", "a", "g", "e", "/", "p", "n", "g">> /\ EndsWith(url, jpg))
                        => WrittenExt(r) = DotPng
                /\ (ct = <<>> /\ EndsWith(url, jpg)) => WrittenExt(r) = jpg
                /\ (ct = <<>> /\ url = <<"h", "t", "t", "p", ":", "/", "/", "h", "/", "a">>)
                        => WrittenExt(r) = DotPdf

\* an event's download with no content type and a url ending .jpg was
\* written to downloaded.jpg
C5_Witness ==
    \E r \in Requests :
        /\ HasDownloaded(r)
        /\ OnEvent(r)
        /\ req[r].dl.ctype = <<>>
        /\ WrittenExt(r) = <<".", "j", "p", "g">>
        /\ pc[r] = "process"

\* the request succeeded with visualize on, an input named *.pdf, no png
\* written, and the pipeline's visualization written to <basename>.pdf
PdfVisCase(r) ==
    /\ Succeeded(r)
    /\ req[r].visualize
    /\ EndsWith(loc[r].file_path, DotPdf)
    /\ req[r].pipe.png = <<>>
    /\ req[r].pipe.pdf # <<>>

\* C6, as claimed: in that case the envelope holds the visualization key
\* with the base64 text of the artifact's bytes; with visualize off it never
\* holds the key.
C6_Original ==
    \A r \in Requests :
        /\ PdfVisCase(r) =>
            /\ "visualization" \in resp[r].keys
            /\ B64Decode(resp[r].visualization).bytes = req[r].pipe.pdf[1]
        /\ (Done(r) /\ ~req[r].visualize) => "visualization" \notin resp[r].keys

\* C6, amended: the same for an artifact that is not empty; an empty
\* artifact is left out of the envelope.
C6_PdfVisualization ==
    \A r \in Requests :
        /\ (PdfVisCase(r) /\ req[r].pipe.pdf[1] # <<>>) =>
            /\ "visualization" \in resp[r].keys
            /\ resp[r].visualization # <<>>
            /\ B64Decode(resp[r].visualization).bytes = req[r].pipe.pdf[1]
        /\ (PdfVisCase(r) /\ req[r].pipe.pdf[1] = <<>>) =>
            "visualization" \notin resp[r].keys
        /\ (Done(r) /\ ~req[r].visualize) => "visualization" \notin resp[r].keys

\* an upload named *.pdf came back with the pipeline's pdf visualization
C6_Witness ==
    \E r \in Requests :
        /\ PdfVisCase(r)
        /\ OnHttp(r)
        /\ req[r].pipe.pdf = <<PdfVisBytes>>
        /\ "visualization" \in resp[r].keys

\* the basename request r looks its artifacts up by
UsedBasename(r) ==
    IF OnHttp(r) THEN ProcessPdfBasename(loc[r].file_path)
    ELSE HandlerBasename(loc[r].file_path)

\* C7, as claimed: the basename of the lookups is the resolved file's name
\* without its extension, whatever the name, so that the markdown the
\* pipeline wrote under that name is returned when merge2markdown is on.
C7_Original ==
    \A r \in Requests :
        /\ loc[r].has_path =>
            UsedBasename(r) = SplitExt(BaseName(loc[r].file_path))[1]
        /\ ( /\ Succeeded(r)
             /\ req[r].merge2markdown
             /\ req[r].pipe.md = <<MdText>>
             /\ req[r].pipe.stem = "splitext" ) =>
            /\ "markdown" \in resp[r].keys
            /\ resp[r].markdown = MdText

\* a resolution that fails: no input, a payload base64 rejects ("JQ=",
\* "J"), a download that fails
ResolutionFails(q) ==
    \/ q.kind \in {"none", "nomap"}
    \/ q.kind = "b64" /\ q.b64 \in {<<"J", "Q", "=">>, <<"J">>}
    \/ q.kind = "url" /\ ~q.dl.ok

\* C8: a request whose input resolution fails never invokes process and is
\* answered with an error, which on the HTTP surface is status 400.
C8_NoProcessOnResolveFailure ==
    \A r \in Requests :
        ResolutionFails(req[r]) =>
            /\ called[r] = NotCalled
            /\ Done(r) =>
                IF OnHttp(r) THEN resp[r].status = 400 /\ ~resp[r].fault
                ELSE /\ "error" \in resp[r].keys
                     /\ "success" \notin resp[r].keys
                     /\ ~resp[r].fault

\* POST /process with a url whose download failed was answered 400 in a
\* process whose pipeline was ready
C8_Witness ==
    \E r \in Requests :
        /\ Done(r)
        /\ OnHttp(r)
        /\ req[r].kind = "url"
        /\ ~req[r].dl.ok
        /\ pdf_extract_task # NoObj
        /\ resp[r].status = 400

\* C9, as claimed: once an initialize_models call has completed, neither
\* global is written again.
C9_Original ==
    [][completed # {} =>
        /\ task_instances' = task_instances
        /\ pdf_extract_task' = pdf_extract_task]_vars

\* C10, as claimed: every path a request opens or looks up lies inside its
\* own workspace, and nothing it wrote is left once it has completed.
C10_Original ==
    \A r \in Requests :
        /\ \A p \in touched[r] : IsUnder(NormPath(p), TempKey(r))
        /\ Done(r) => \A p \in touched[r] : \A f \in files : f.path # NormPath(p)

=============================================================================
